---- MODULE Spec2Model ----
(***************************************************************************)
(* Model of convert_to_coreml.py: a sequential script that imports          *)
(* coremltools and onnx behind an ImportError guard, converts the ONNX file *)
(* "silero_vad.onnx" with ct.convert and saves the result to a fixed        *)
(* .mlpackage path.  The state is the interpreter's position in the script, *)
(* its output streams and exit status, the name coreml_model, and the part  *)
(* of the environment the script reads or writes: the importable packages,  *)
(* the file system and the condition of the destination volume.  The script *)
(* may be run again after it terminated; the file system persists.          *)
(***************************************************************************)
EXTENDS Integers, Sequences, FiniteSets

\* ---------------------------------------------------------------- bounds
MaxRuns == 2
NumModels == 2

Models == 1..NumModels

\* ------------------------------------------------------- script literals
SourcePath == "silero_vad.onnx"
OutputPath == "/Users/ebowwa/apps/ios/VAD-Test/VAD-Test/Models/silero_vad.mlpackage"
\* any path other than the two the script names
OtherPath == "/Users/ebowwa/apps/ios/VAD-Test/VAD-Test/Models/silero_vad_2.mlpackage"
Paths == {SourcePath, OutputPath, OtherPath}

RequiredPackages == {"coremltools", "onnx"}

InstallHintLine == "Please install required packages:"
PipCommandLine == "pip install coremltools onnx onnxruntime"
LoadingLine == "Loading ONNX model..."
ConvertingLineCopied == "Loading ONNX model..."
ConvertingLine == "Converting to CoreML..."
SavingLine == "Saving CoreML model..."
CompleteLine == "Conversion complete!"

ConvertTo == "mlprogram"
MinimumDeploymentTarget == "iOS15"
InputSpecShort == << [name |-> "input", shape |-> <<1, 256>>] >>
InputSpec == << [name |-> "input", shape |-> <<1, 512>>] >>

\* the keyword arguments of the ct.convert call
Request ==
  [model |-> SourcePath, convert_to |-> ConvertTo,
   minimum_deployment_target |-> MinimumDeploymentTarget, inputs |-> InputSpec]

\* ----------------------------------------------------------- file contents
\* Every file content is a record of one shape, so that contents compare.
Absent == [kind |-> "absent", model |-> 0, format |-> "", target |-> "", inputs |-> << >>]
Garbage == [kind |-> "garbage", model |-> 0, format |-> "", target |-> "", inputs |-> << >>]
\* an ONNX file of network m whose graph input has the given shape
Onnx(m, shape) ==
  [kind |-> "onnx", model |-> m, format |-> "onnx", target |-> "",
   inputs |-> << [name |-> "input", shape |-> shape] >>]
\* a complete .mlpackage
Package(m, format, target, inputs) ==
  [kind |-> "mlpackage", model |-> m, format |-> format, target |-> target, inputs |-> inputs]
\* what an interrupted write of package p leaves behind
Truncated(p) == [p EXCEPT !.kind = "partial"]

SourceContents ==
  {Absent, Garbage} \cup {Onnx(m, s) : m \in Models, s \in {<<1, 512>>, <<1, 256>>}}
PriorArtifacts ==
  {Absent} \cup {Package(m, "mlprogram", "iOS15", << [name |-> "input", shape |-> <<1, 512>>] >>) : m \in Models}

\* no model bound to coreml_model yet
Unset == [kind |-> "unset", model |-> 0, format |-> "", target |-> "", inputs |-> << >>]

Running == 0 - 1

VARIABLES
  pc,            \* the statement the interpreter executes next
  stdout,        \* lines printed so far by this run
  stderr,        \* diagnostics (tracebacks) written by this run
  status,        \* exit status of this run, Running until it terminates
  coreml_model,  \* the value bound to the name coreml_model
  installed,     \* packages the interpreter can import
  fs,            \* file system: path -> content
  disk,          \* condition of the destination volume
  calls,         \* library calls made by this run, in order
  requests,      \* the keyword arguments of this run's ct.convert calls
  stdinReads,    \* number of reads from standard input by this run
  run,           \* number of the current run
  fsAtStart,     \* the file system when this run started
  history        \* one summary per terminated run

vars == <<pc, stdout, stderr, status, coreml_model, installed, fs, disk,
          calls, requests, stdinReads, run, fsAtStart, history>>

\* ------------------------------------------------------------ ct.convert
Compatible(src, inputs) ==
  /\ Len(inputs) = Len(src.inputs)
  /\ \A i \in 1..Len(inputs) : inputs[i].shape = src.inputs[i].shape

ConvertSucceedsUnchecked(files, req) == files[req.model].kind # "garbage"
ConvertSucceeds(files, req) ==
  /\ files[req.model].kind = "onnx"
  /\ Compatible(files[req.model], req.inputs)

Convert(files, req) ==
  Package(files[req.model].model, req.convert_to, req.minimum_deployment_target, req.inputs)

\* ------------------------------------------------------------- bookkeeping
Call(op, target, ok) == [op |-> op, target |-> target, ok |-> ok, out |-> Len(stdout)]

Summary(st, files) ==
  [src |-> fsAtStart[SourcePath], before |-> fsAtStart[OutputPath],
   after |-> files[OutputPath], status |-> st, out |-> stdout]

Init ==
  /\ pc = "import_coremltools"
  /\ stdout = << >>
  /\ stderr = << >>
  /\ status = Running
  /\ coreml_model = Unset
  /\ installed \in SUBSET RequiredPackages
  /\ \E s \in SourceContents, d \in PriorArtifacts :
        fs = [p \in Paths |-> IF p = SourcePath THEN s ELSE IF p = OutputPath THEN d ELSE Absent]
  /\ disk \in {"ok", "readonly", "full"}
  /\ calls = << >>
  /\ requests = << >>
  /\ stdinReads = 0
  /\ run = 1
  /\ fsAtStart = fs
  /\ history = << >>

\* the interpreter terminates with exit status st, the file system being files
Terminate(st, files) ==
  /\ pc' = "terminated"
  /\ status' = st
  /\ history' = Append(history, Summary(st, files))

\* an exception nobody catches: traceback on stderr, exit status 1
UncaughtIgnored(exc, files) ==
  /\ stderr' = Append(stderr, exc)
  /\ pc' = "print_complete"
  /\ UNCHANGED <<status, history>>
UncaughtRetried(exc, files) ==
  /\ stderr' = Append(stderr, exc)
  /\ pc' = pc
  /\ UNCHANGED <<status, history>>
Uncaught(exc, files) ==
  /\ stderr' = Append(stderr, exc)
  /\ Terminate(1, files)

\* lines 6-9: an import inside the try block either succeeds and control
\* goes on, or raises ImportError and control enters the except block
AfterImportUnguarded(pkg, next) == next
AfterImport(pkg, next) == IF pkg \in installed THEN next ELSE "print_install_hint"

\* line 7: import coremltools as ct
ImportCoremltools ==
  /\ pc = "import_coremltools"
  /\ calls' = Append(calls, Call("import", "coremltools", "coremltools" \in installed))
  /\ pc' = AfterImport("coremltools", "import_onnx")
  /\ UNCHANGED <<stdout, stderr, status, coreml_model, installed, fs, disk,
                 requests, stdinReads, run, fsAtStart, history>>

\* line 8: import onnx
ImportOnnx ==
  /\ pc = "import_onnx"
  /\ calls' = Append(calls, Call("import", "onnx", "onnx" \in installed))
  /\ pc' = AfterImport("onnx", "print_loading")
  /\ UNCHANGED <<stdout, stderr, status, coreml_model, installed, fs, disk,
                 requests, stdinReads, run, fsAtStart, history>>

\* a print statement: one line on stdout, then the next statement
PrintLine(line, next) ==
  /\ stdout' = Append(stdout, line)
  /\ pc' = next
  /\ UNCHANGED <<stderr, status, coreml_model, installed, fs, disk, calls,
                 requests, stdinReads, run, fsAtStart, history>>

\* line 10
PrintInstallHint ==
  /\ pc = "print_install_hint"
  /\ PrintLine(InstallHintLine, "print_pip_command")

\* line 11
PrintPipCommand ==
  /\ pc = "print_pip_command"
  /\ PrintLine(PipCommandLine, "exit")

\* line 12: exit(1)
Exit ==
  /\ pc = "exit"
  /\ Terminate(1, fs)
  /\ UNCHANGED <<stdout, stderr, coreml_model, installed, fs, disk, calls,
                 requests, stdinReads, run, fsAtStart>>

\* line 15
PrintLoading ==
  /\ pc = "print_loading"
  /\ PrintLine(LoadingLine, "print_converting")

\* line 17
PrintConverting ==
  /\ pc = "print_converting"
  /\ PrintLine(ConvertingLine, "convert")

\* lines 20-27: coreml_model = ct.convert(...)
CtConvert ==
  /\ pc = "convert"
  /\ requests' = Append(requests, Request)
  /\ calls' = Append(calls, Call("convert", Request.model, ConvertSucceeds(fs, Request)))
  /\ IF ConvertSucceeds(fs, Request)
       THEN /\ coreml_model' = Convert(fs, Request)
            /\ pc' = "print_saving"
            /\ UNCHANGED <<stderr, status, history>>
       ELSE /\ Uncaught("ct.convert", fs)
            /\ UNCHANGED coreml_model
  /\ UNCHANGED <<stdout, installed, fs, disk, stdinReads, run, fsAtStart>>

\* line 29
PrintSaving ==
  /\ pc = "print_saving"
  /\ PrintLine(SavingLine, "save")

\* the path coreml_model.save is given
SaveTargetVersioned == IF fs[OutputPath] = Absent THEN OutputPath ELSE OtherPath
SaveTarget == OutputPath

\* what a successful save leaves at the path
SavedKeepExisting(old, new) == IF old = Absent THEN new ELSE old
SavedMerged(old, new) == IF old = Absent THEN new ELSE [new EXCEPT !.kind = "merged"]
Saved(old, new) == new

\* what a save that raises can leave at the path
SaveFailureLeaves(old, new) ==
  IF disk = "readonly" THEN {old} ELSE {old, Absent, Truncated(new)}

\* line 30: coreml_model.save(path)
Save ==
  /\ pc = "save"
  /\ calls' = Append(calls, Call("save", SaveTarget, disk = "ok"))
  /\ IF disk = "ok"
       THEN /\ fs' = [fs EXCEPT ![SaveTarget] = Saved(fs[SaveTarget], coreml_model)]
            /\ pc' = "print_complete"
            /\ UNCHANGED <<stderr, status, history>>
       ELSE /\ \E left \in SaveFailureLeaves(fs[SaveTarget], coreml_model) :
                 /\ fs' = [fs EXCEPT ![SaveTarget] = left]
                 /\ Uncaught("coreml_model.save", fs')
  /\ UNCHANGED <<stdout, coreml_model, installed, disk, requests, stdinReads,
                 run, fsAtStart>>

\* line 31
PrintComplete ==
  /\ pc = "print_complete"
  /\ PrintLine(CompleteLine, "end")

\* end of the module body: normal interpreter exit
EndOfScript ==
  /\ pc = "end"
  /\ Terminate(0, fs)
  /\ UNCHANGED <<stdout, stderr, coreml_model, installed, fs, disk, calls,
                 requests, stdinReads, run, fsAtStart>>

\* ------------------------------------------------------------ environment
\* the script is started again
StartRun ==
  /\ pc = "terminated"
  /\ run < MaxRuns
  /\ pc' = "import_coremltools"
  /\ stdout' = << >>
  /\ stderr' = << >>
  /\ status' = Running
  /\ coreml_model' = Unset
  /\ calls' = << >>
  /\ requests' = << >>
  /\ stdinReads' = 0
  /\ run' = run + 1
  /\ fsAtStart' = fs
  /\ UNCHANGED <<installed, fs, disk, history>>

\* between runs: the user follows the remediation lines
PipInstall ==
  /\ pc = "terminated"
  /\ run < MaxRuns
  /\ installed # RequiredPackages
  /\ installed' = RequiredPackages
  /\ UNCHANGED <<pc, stdout, stderr, status, coreml_model, fs, disk, calls,
                 requests, stdinReads, run, fsAtStart, history>>

\* between runs: the file at the source path is replaced
ReplaceSource ==
  /\ pc = "terminated"
  /\ run < MaxRuns
  /\ \E s \in SourceContents :
        /\ s # fs[SourcePath]
        /\ fs' = [fs EXCEPT ![SourcePath] = s]
  /\ UNCHANGED <<pc, stdout, stderr, status, coreml_model, installed, disk,
                 calls, requests, stdinReads, run, fsAtStart, history>>

\* between runs: the destination volume is repaired
RepairDisk ==
  /\ pc = "terminated"
  /\ run < MaxRuns
  /\ disk # "ok"
  /\ disk' = "ok"
  /\ UNCHANGED <<pc, stdout, stderr, status, coreml_model, installed, fs,
                 calls, requests, stdinReads, run, fsAtStart, history>>

Next ==
  \/ ImportCoremltools
  \/ ImportOnnx
  \/ PrintInstallHint
  \/ PrintPipCommand
  \/ Exit
  \/ PrintLoading
  \/ PrintConverting
  \/ CtConvert
  \/ PrintSaving
  \/ Save
  \/ PrintComplete
  \/ EndOfScript
  \/ StartRun
  \/ PipInstall
  \/ ReplaceSource
  \/ RepairDisk

Spec == Init /\ [][Next]_vars

\* ================================================================ properties
Terminated == pc = "terminated"
Range(q) == {q[i] : i \in DOMAIN q}
CallsOf(op) == {i \in DOMAIN calls : calls[i].op = op}
FailedCalls(op) == {i \in CallsOf(op) : ~calls[i].ok}
ImportFailed == FailedCalls("import") # {}
ProgressLines ==
  {"Loading ONNX model...", "Converting to CoreML...", "Saving CoreML model...",
   "Conversion complete!"}
IsPrefix(q, r) == Len(q) <= Len(r) /\ \A i \in DOMAIN q : q[i] = r[i]
\* the package this run's conversion of source content src is to produce
Expected(src) ==
  [kind |-> "mlpackage", model |-> src.model, format |-> "mlprogram", target |-> "iOS15",
   inputs |-> << [name |-> "input", shape |-> <<1, 512>>] >>]
ValidSource(src) == src.kind = "onnx" /\ src.inputs[1].shape = <<1, 512>>

\* C1: in a run in which coremltools or onnx cannot be imported, only the two
\* remediation lines are printed (no progress line, nothing on stderr), the
\* conversion and the save are never invoked, the file system stays as it was
\* when the run started, and the run ends with exactly the two lines printed
\* and exit status 1; until then it is inside the except block.
C1_MissingDependencyExits ==
  ImportFailed =>
    /\ CallsOf("convert") = {} /\ CallsOf("save") = {} /\ requests = << >>
    /\ fs[OutputPath] = fsAtStart[OutputPath]
    /\ fs[OtherPath] = fsAtStart[OtherPath]
    /\ coreml_model.kind = "unset"
    /\ Range(stdout) \cap ProgressLines = {}
    /\ IsPrefix(stdout, <<"Please install required packages:",
                          "pip install coremltools onnx onnxruntime">>)
    /\ stderr = << >>
    /\ pc \in {"print_install_hint", "print_pip_command", "exit", "terminated"}
    /\ Terminated =>
         /\ stdout = <<"Please install required packages:",
                       "pip install coremltools onnx onnxruntime">>
         /\ status = 1

C1_Witness ==
  /\ Terminated /\ ImportFailed /\ status = 1
  /\ Len(stdout) = 2
  /\ fsAtStart[OutputPath].kind = "mlpackage"
  /\ ValidSource(fsAtStart[SourcePath])

\* C2: a terminated run whose imports succeeded, whose source file was a valid
\* model with input shape (1, 512) and whose save did not fail has exit status
\* 0, and the destination path holds the complete package converted from that
\* source by this run; no other path was written.
C2_ValidSourceProducesArtifact ==
  ( /\ Terminated
    /\ ~ImportFailed
    /\ ValidSource(fsAtStart[SourcePath])
    /\ FailedCalls("save") = {} )
  =>
    /\ status = 0
    /\ fs[OutputPath] = Expected(fsAtStart[SourcePath])
    /\ fs[OutputPath] = coreml_model
    /\ fs[OtherPath] = fsAtStart[OtherPath]

C2_Witness ==
  /\ Terminated /\ status = 0
  /\ ValidSource(fsAtStart[SourcePath])
  /\ fsAtStart[OutputPath].kind = "mlpackage"
  /\ fsAtStart[OutputPath].model # fsAtStart[SourcePath].model
  /\ fs[OutputPath] = Expected(fsAtStart[SourcePath])

\* C3: in a run started with no file at the source path the save is never
\* reached and the destination holds what it held when the run started; when
\* the run has terminated its exit status is not 0.
C3_AbsentSourceFails ==
  fsAtStart[SourcePath].kind = "absent" =>
    /\ CallsOf("save") = {}
    /\ pc \notin {"print_saving", "save", "print_complete", "end"}
    /\ fs[OutputPath] = fsAtStart[OutputPath]
    /\ fs[OtherPath] = fsAtStart[OtherPath]
    /\ Terminated => status # 0 /\ status # Running

C3_Witness ==
  /\ Terminated
  /\ fsAtStart[SourcePath].kind = "absent"
  /\ FailedCalls("convert") # {}
  /\ fsAtStart[OutputPath].kind = "mlpackage"
  /\ status = 1

\* the final state of a terminated run is all-or-nothing
AllOrNothing ==
  \/ /\ status = 0
     /\ fs[OutputPath] = Expected(fsAtStart[SourcePath])
  \/ /\ status # 0
     /\ fs[OutputPath] = fsAtStart[OutputPath]

\* the run put no partial artifact at the destination
NoNewPartial ==
  fs[OutputPath].kind = "partial" => fs[OutputPath] = fsAtStart[OutputPath]

\* C4 as stated: every terminated run, whatever the point it terminated at
\* (missing dependency, conversion failure, save failure, success), is
\* all-or-nothing and leaves no partial artifact at the destination.
C4_AllOrNothingEveryTermination ==
  Terminated => AllOrNothing /\ NoNewPartial

\* C4 amended: every terminated run that did not terminate in a failing save
\* (missing dependency, conversion failure, success) is all-or-nothing and
\* leaves no partial artifact; a run whose save fails leaves the destination
\* unchanged, removed, or holding a truncated copy of the new package.
C4_AllOrNothingUnlessSaveFails ==
  Terminated =>
    IF FailedCalls("save") = {}
      THEN AllOrNothing /\ NoNewPartial
      ELSE /\ status # 0
           /\ \/ fs[OutputPath] = fsAtStart[OutputPath]
              \/ fs[OutputPath].kind = "absent"
              \/ /\ fs[OutputPath].kind = "partial"
                 /\ fs[OutputPath].model = fsAtStart[SourcePath].model

C4_Witness ==
  /\ Terminated
  /\ FailedCalls("save") # {}
  /\ fs[OutputPath].kind = "partial"
  /\ fsAtStart[OutputPath].kind = "mlpackage"

\* C5: a successful run started with an artifact at the destination path read
\* nothing from standard input, wrote no other path, and left the newly
\* converted package at the destination path.
C5_OverwritesInPlace ==
  ( /\ Terminated /\ status = 0
    /\ fsAtStart[OutputPath].kind # "absent" )
  =>
    /\ stdinReads = 0
    /\ \A p \in Paths \ {OutputPath} : fs[p] = fsAtStart[p] \/ p = SourcePath
    /\ fs[OtherPath].kind = "absent"
    /\ fs[OutputPath] = Expected(fsAtStart[SourcePath])
    /\ \A i \in CallsOf("save") :
         calls[i].target = "/Users/ebowwa/apps/ios/VAD-Test/VAD-Test/Models/silero_vad.mlpackage"

C5_Witness ==
  /\ Terminated /\ status = 0
  /\ fsAtStart[OutputPath].kind = "mlpackage"
  /\ fsAtStart[OutputPath] # fs[OutputPath]
  /\ fs[OutputPath].kind = "mlpackage"

\* C6: of the terminated runs, any two successful ones that started from the
\* same source content (in particular two successive ones) left the same
\* artifact at the destination, whatever the destination held before each.
C6_Idempotent ==
  \A i \in DOMAIN history : \A j \in DOMAIN history :
    ( /\ history[i].status = 0 /\ history[j].status = 0
      /\ history[i].src = history[j].src )
    => history[i].after = history[j].after

C6_Witness ==
  /\ Len(history) >= 2
  /\ history[1].status = 0 /\ history[2].status = 0
  /\ history[1].src = history[2].src
  /\ history[1].before # history[2].before
  /\ history[1].after = history[2].after

\* C7: a run that terminated with status 0 printed exactly the four progress
\* lines in the order load, convert, save, complete; the load and convert
\* lines were out before the conversion was called, the save line after the
\* conversion returned and before the save was called, the complete line
\* after the save, and a run that printed the complete line exits with
\* status 0.  A run still executing has printed a prefix of the four.
C7_FourProgressLines ==
  /\ (Terminated /\ status = 0) =>
       /\ stdout = <<"Loading ONNX model...", "Converting to CoreML...",
                     "Saving CoreML model...", "Conversion complete!">>
       /\ \E i \in CallsOf("convert") : calls[i].ok /\ calls[i].out = 2
       /\ \E i \in CallsOf("save") : calls[i].ok /\ calls[i].out = 3
       /\ stderr = << >>
  /\ (Terminated /\ "Conversion complete!" \in Range(stdout)) => status = 0
  /\ pc = "end" => Len(stdout) = 4 /\ status = Running
  /\ \A i \in CallsOf("import") : calls[i].out = 0
  /\ (~ImportFailed) =>
       IsPrefix(stdout, <<"Loading ONNX model...", "Converting to CoreML...",
                          "Saving CoreML model...", "Conversion complete!">>)

C7_Witness ==
  /\ Terminated /\ status = 0
  /\ Len(stdout) = 4
  /\ Len(calls) = 4

\* C8: a failing conversion or save is not caught: it is the run's last call,
\* the run terminated at once with a traceback and a non-zero status, nothing
\* was printed after it, and "Conversion complete!" is not in the output.
\* Conversely that line is in the output only if both calls succeeded.
C8_OnlyImportErrorHandled ==
  /\ \A i \in FailedCalls("convert") \cup FailedCalls("save") :
       /\ i = Len(calls)
       /\ Terminated
       /\ status # 0 /\ status # Running
       /\ stderr # << >>
       /\ Len(stdout) = calls[i].out
       /\ "Conversion complete!" \notin Range(stdout)
  /\ "Conversion complete!" \in Range(stdout) =>
       /\ \E i \in CallsOf("convert") : calls[i].ok
       /\ \E i \in CallsOf("save") : calls[i].ok
  /\ ImportFailed => stderr = << >>

C8_Witness ==
  /\ Terminated
  /\ FailedCalls("save") # {}
  /\ status = 1
  /\ Len(stdout) = 3

\* C9: every ct.convert call carries the same keyword arguments (model
\* "silero_vad.onnx", convert_to "mlprogram", minimum deployment target iOS15,
\* one input named "input" of shape (1, 512)) and every save goes to the one
\* fixed destination path, whatever the environment and the earlier runs.
C9_FixedRequest ==
  /\ \A i \in DOMAIN requests :
       /\ requests[i].model = "silero_vad.onnx"
       /\ requests[i].convert_to = "mlprogram"
       /\ requests[i].minimum_deployment_target = "iOS15"
       /\ Len(requests[i].inputs) = 1
       /\ requests[i].inputs[1] = [name |-> "input", shape |-> <<1, 512>>]
  /\ \A i \in CallsOf("convert") : calls[i].target = "silero_vad.onnx"
  /\ \A i \in CallsOf("save") :
       calls[i].target = "/Users/ebowwa/apps/ios/VAD-Test/VAD-Test/Models/silero_vad.mlpackage"
  /\ Len(requests) = Cardinality(CallsOf("convert"))

C9_Witness ==
  /\ run = 2
  /\ Len(requests) = 1
  /\ CallsOf("save") # {}
  /\ fsAtStart[OutputPath].kind = "partial"
  /\ history[1].src # fsAtStart[SourcePath]

\* C10: in every run both imports have succeeded before the conversion is
\* called, the conversion and the save are each called at most once, the save
\* is called only after this run's conversion returned successfully, and a
\* failed call is the last call of its run.
C10_OrderedNoRetry ==
  /\ Cardinality(CallsOf("convert")) <= 1
  /\ Cardinality(CallsOf("save")) <= 1
  /\ \A i \in CallsOf("convert") :
       /\ i = 3
       /\ calls[1] = [op |-> "import", target |-> "coremltools", ok |-> TRUE, out |-> 0]
       /\ calls[2] = [op |-> "import", target |-> "onnx", ok |-> TRUE, out |-> 0]
  /\ \A i \in CallsOf("save") :
       /\ i = 4
       /\ calls[3].op = "convert" /\ calls[3].ok
       /\ coreml_model.kind = "mlpackage"
  /\ \A i \in DOMAIN calls : ~calls[i].ok => i = Len(calls)

C10_Witness ==
  /\ Terminated
  /\ Len(calls) = 3
  /\ ~calls[3].ok
  /\ run = 2
  /\ history[1].status = 1

====
